---- MODULE Spec2Model ----
(***************************************************************************)
(* The to-do web application: the Task Store, the Account Directory, the   *)
(* remote object store and the request handlers of src/routes/*.py.  One   *)
(* action per request handler; every action handles one whole request.     *)
(***************************************************************************)
EXTENDS Integers, Sequences, FiniteSets, TLC

VARIABLES
    tasks,      \* the task table: rows in id order
    s3,         \* the remote object store: key -> bytes
    users,      \* the user table: rows in id order
    session,    \* client -> id of the logged-in user (0: none)
    req,        \* the request handled last
    resp,       \* the response given to it
    toggled,    \* the run of successful /complete requests on one task
    attached,   \* task id -> file name and bytes of its last successful upload
    inflight    \* worker -> the request it has read for and not yet committed

vars == <<tasks, s3, users, session, req, resp, toggled, attached, inflight>>

\* ------------------------------------------------------------------ bounds
MaxId   == 2        \* the largest id the task table gives a row
MaxBulk == 2        \* records in one /api/bulk_add body at most

\* ------------------------------------------------------------ value domains
None == "None"                      \* Python None: an absent field
Clients   == {"c1"}
Workers   == {"w1", "w2"}           \* the requests the server handles at once
Names     == {"a", "b"}
Dues      == {"d"}
FileNames == {"f"}
Contents  == {"x"}
Emails    == {"e", "g"}
Passwords == {"p", "q"}
FormText(S) == S \cup {"", None}    \* what request.form.get can give
DbOutcomes == {"ok", "fail"}        \* the storage engine works / raises
\* the remote store works, has no credentials, or fails one call
S3Outcomes ==
    {"ok", "nocreds", "head_error", "delete_error", "upload_error", "get_error"}
Methods == {"GET", "POST"}
\* the values of the query argument "incomplete" (None: not given)
IncompleteArgs == {None, "true", "TRUE", "false"}

\* (mutant) the argument is compared as it was sent
LowerAsIs(str) == str

\* str.lower
Lower(str) == IF str = "TRUE" THEN "true" ELSE str

\* JSON bodies of /api/bulk_add.  A value has a kind; an object has the
\* keys name, due_date and complete, each of which may be absent.
Absent == "absent"
JsonValue(kind, name, due_date, complete) ==
    [kind |-> kind, name |-> name, due_date |-> due_date, complete |-> complete]
JsonScalar(kind) == JsonValue(kind, Absent, Absent, Absent)
JsonItems ==
    {JsonValue("object", "a", "d", Absent),
     JsonValue("object", "b", "d", "true"),
     JsonValue("object", Absent, "d", "false"),
     JsonValue("object", "a", Absent, Absent),
     JsonValue("object", "", "", Absent),
     JsonScalar("number")}
RECURSIVE SeqsUpTo(_, _)
SeqsUpTo(S, n) ==
    IF n = 0 THEN {<<>>}
    ELSE LET shorter == SeqsUpTo(S, n - 1)
         IN  shorter \cup {Append(q, x) : q \in shorter, x \in S}
JsonList(items) == [kind |-> "list", items |-> items]
JsonOther(kind) == [kind |-> kind, items |-> <<>>]
\* the bodies that are lists of at most n values, and those that are no list
BodiesUpTo(n) ==
    {JsonList(items) : items \in SeqsUpTo(JsonItems, n)}
        \cup {JsonOther(k) : k \in {"object", "null", "string"}}
JsonBodies == BodiesUpTo(MaxBulk)
NoJson == JsonOther("none")         \* a request without a JSON body

\* dict.get(key) and dict.get(key, default)
DictGet(obj, key, default) == IF obj[key] = Absent THEN default ELSE obj[key]

\* Python truthiness of a form or JSON value: None and "" are falsy
Truthy(v) == v # None /\ v # ""

\* ---------------------------------------------------------------- storage
\* (mutant) the flag of a new row is set whatever the handler passes
TaskMarkedComplete(id, name, due_date, complete) ==
    [id |-> id, name |-> name, due_date |-> due_date,
     complete |-> TRUE, file_name |-> None]

Task(id, name, due_date, complete) ==
    [id |-> id, name |-> name, due_date |-> due_date,
     complete |-> complete, file_name |-> None]

\* the id the storage engine gives the next row: an INTEGER PRIMARY KEY of
\* SQLite is the largest id in the table plus one
NextId(ts) == IF ts = <<>> THEN 1 ELSE ts[Len(ts)].id + 1

Ids(ts) == {ts[i].id : i \in 1..Len(ts)}

\* (mutant) the row is looked up by its position in the table
GetByPosition(ts, task_id) == IF task_id \in 1..Len(ts) THEN task_id ELSE 0

\* db.session.get(Task, task_id): the index of the row, 0 when there is none
Get(ts, task_id) ==
    IF task_id \in Ids(ts)
    THEN CHOOSE i \in 1..Len(ts) : ts[i].id = task_id
    ELSE 0

\* (mutant) the rows of one add_all are inserted last row first
RECURSIVE InsertReversed(_, _)
InsertReversed(ts, rows) ==
    IF rows = <<>> THEN ts
    ELSE InsertReversed(Append(ts, [rows[Len(rows)] EXCEPT !.id = NextId(ts)]),
                        SubSeq(rows, 1, Len(rows) - 1))

\* db.session.add(row) or add_all(rows), then commit
RECURSIVE Insert(_, _)
Insert(ts, rows) ==
    IF rows = <<>> THEN ts
    ELSE Insert(Append(ts, [Head(rows) EXCEPT !.id = NextId(ts)]), Tail(rows))

\* db.session.delete(row), then commit
Remove(ts, i) == [j \in 1..(Len(ts) - 1) |-> IF j < i THEN ts[j] ELSE ts[j + 1]]

\* (mutant) the key leaves the task id out: files of all tasks share keys
S3KeyNoTask(task_id, file_name) == <<"task", 0, file_name>>

\* the key of a task's file: f"task_{task_id}/{file_name}"
S3Key(task_id, file_name) == <<"task", task_id, file_name>>

S3Empty == [k \in {} |-> None]
\* upload_fileobj: the object at key now holds body
S3Put(store, key, body) ==
    [k \in DOMAIN store \cup {key} |-> IF k = key THEN body ELSE store[k]]
\* delete_object
S3Delete(store, key) == [k \in DOMAIN store \ {key} |-> store[k]]

\* generate_password_hash / check_password_hash
PasswordHash(password) == <<"pbkdf2:sha256", password>>
\* (mutant) any password passes against a well-formed hash
CheckPasswordHashAny(hash, password) == hash[1] = "pbkdf2:sha256"
CheckPasswordHash(hash, password) == hash[1] = "pbkdf2:sha256" /\ hash[2] = password

\* (mutant) the email column is not declared unique
UniqueNotEnforced(us, email) == FALSE

\* the unique constraint on User.email: the commit of a row with an email
\* another row has raises IntegrityError
UniqueViolation(us, email) == \E i \in 1..Len(us) : us[i].email = email

\* User.query.filter_by(email=email).first(): the index of the row, 0 for none
FirstUser(us, email) ==
    IF \E i \in 1..Len(us) : us[i].email = email
    THEN CHOOSE i \in 1..Len(us) :
            /\ us[i].email = email
            /\ \A j \in 1..(i - 1) : us[j].email # email
    ELSE 0

\* -------------------------------------------------------------- responses
Flash(msg, category) == <<msg, category>>
EmptyBody == [kind |-> "empty"]
Redirect(target, flashes) ==
    [status |-> 302, loc |-> target, flashes |-> flashes, body |-> EmptyBody]
Page(status, template, flashes) ==
    [status |-> status, loc |-> None, flashes |-> flashes,
     body |-> [kind |-> "html", template |-> template]]
Json(status, body) ==
    [status |-> status, loc |-> None, flashes |-> <<>>, body |-> body]
\* an exception no handler catches: the framework's 500 page
Unhandled ==
    [status |-> 500, loc |-> None, flashes |-> <<>>, body |-> [kind |-> "unhandled"]]
\* abort(code)
Abort(code) ==
    [status |-> code, loc |-> None, flashes |-> <<>>, body |-> [kind |-> "abort"]]

\* a request as the handler gets it: the endpoint, the client and whether it
\* has a session, the task id of the path and the JSON body
Request(ep, c, task_id) ==
    [ep |-> ep, client |-> c, authed |-> session[c] # 0, id |-> task_id,
     json |-> NoJson]

\* ------------------------------------------------------------ login gating
\* The endpoints whose registered view function is the one login_required
\* wraps: @login_required below @route.  Written above @route, the
\* decorator wraps the function after the route has registered the bare one.
LoginGated == {"home", "dashboard", "logout"}

\* flask_login's answer to a gated request without a session
Unauthorized ==
    Redirect("login", <<Flash("Please log in to access this page.", "message")>>)

NoToggle == [id |-> 0, orig |-> FALSE, n |-> 0]
NoAttach == [id \in {} |-> <<>>]

\* a worker that handles no request
Idle == [op |-> "none", client |-> "c1", id |-> 0, name |-> None,
         complete |-> FALSE, json |-> NoJson, rows |-> <<>>, before |-> <<>>]

\* ------------------------------------------------------------------- Init
Init ==
    /\ tasks = <<>>
    /\ s3 = S3Empty
    /\ users = <<>>
    /\ session = [c \in Clients |-> 0]
    /\ req = [ep |-> "none", client |-> "c1", authed |-> FALSE, id |-> 0,
              json |-> NoJson]
    /\ resp = Page(200, "none", <<>>)
    /\ toggled = NoToggle
    /\ attached = NoAttach
    /\ inflight = [w \in Workers |-> Idle]

\* ---------------------------------------------------------------- actions
\* a request to a login-gated endpoint from a client without a session
Rejected(ep, c) == ep \in LoginGated /\ session[c] = 0

\* GET /
Home(c, incomplete, db) ==
    /\ req' = Request("home", c, 0)
    /\ IF Rejected("home", c) THEN resp' = Unauthorized
       ELSE IF db = "fail"
       THEN resp' = [Page(500, "Database error", <<>>) EXCEPT !.body.kind = "text"]
       ELSE LET show_incomplete ==
                    Lower(IF incomplete = None THEN "false" ELSE incomplete) = "true"
                filtered_tasks ==
                    IF show_incomplete
                    THEN SelectSeq(tasks, LAMBDA t : ~t.complete)
                    ELSE tasks
            IN  resp' = [status |-> 200, loc |-> None, flashes |-> <<>>,
                         body |-> [kind |-> "html", template |-> "index.html",
                                   tasks |-> filtered_tasks,
                                   number_of_tasks |-> Len(filtered_tasks)]]
    /\ UNCHANGED <<tasks, s3, users, session>>

\* the list get_tasks answers with: every row, without its file name
TasksJson(ts) ==
    [i \in 1..Len(ts) |-> [id |-> ts[i].id, name |-> ts[i].name,
                           due_date |-> ts[i].due_date,
                           complete |-> ts[i].complete]]

\* GET /api/tasks
GetTasks(c, db) ==
    /\ req' = Request("get_tasks", c, 0)
    /\ IF Rejected("get_tasks", c) THEN resp' = Unauthorized
       ELSE IF db = "fail"
       THEN resp' = Json(500, [kind |-> "json", error |-> "Error when returning all tasks"])
       ELSE resp' = Json(200, [kind |-> "json", tasks |-> TasksJson(tasks)])
    /\ UNCHANGED <<tasks, s3, users, session>>

\* POST /add
AddTask(c, name, due_date, db) ==
    /\ req' = Request("add", c, 0)
    /\ IF Rejected("add", c)
       THEN resp' = Unauthorized /\ tasks' = tasks
       ELSE IF Truthy(name) /\ Truthy(due_date)
       THEN IF db = "ok"
            THEN /\ NextId(tasks) <= MaxId
                 /\ tasks' = Insert(tasks, <<Task(0, name, due_date, FALSE)>>)
                 /\ resp' = Redirect("home", <<Flash("Task added successfully", "success")>>)
            ELSE /\ tasks' = tasks
                 /\ resp' = Redirect("home", <<Flash("Error in adding task", "error")>>)
       ELSE /\ tasks' = tasks
            /\ resp' = Redirect("home", <<>>)
    /\ UNCHANGED <<s3, users, session>>

\* (mutant) the message shows the value as it is, missing or not
ShownRaw(value) == value

\* a field of a record as the error message of bulk_add_tasks shows it
Shown(value) == IF Truthy(value) THEN value ELSE "missing"

\* the loop of bulk_add_tasks over the records of the body: the rows built
\* so far, until a record without name or due_date ends the request or a
\* value that is no object raises
RECURSIVE BulkLoop(_, _)
BulkLoop(items, tasks_to_insert) ==
    IF items = <<>> THEN [out |-> "done", rows |-> tasks_to_insert]
    ELSE LET task == Head(items) IN
         IF task.kind # "object" THEN [out |-> "raised", rows |-> tasks_to_insert]
         ELSE LET name == DictGet(task, "name", None)
                  due_date == DictGet(task, "due_date", None)
                  complete == DictGet(task, "complete", "false")
              IN  IF Truthy(name) /\ Truthy(due_date)
                  THEN BulkLoop(Tail(items),
                                Append(tasks_to_insert,
                                       Task(0, name, due_date, complete = "true")))
                  ELSE [out |-> "invalid", rows |-> tasks_to_insert,
                        error |-> <<"Each task must have a name and due_date.",
                                    "The name was",
                                    Shown(name),
                                    "and due_date was",
                                    Shown(due_date)>>]

\* (mutant) every row is committed on its own: when the commit of the last
\* row raises, the rows before it stay
BulkCommitPartial(ts, rows, db) ==
    IF db = "ok" \/ rows = <<>> THEN Insert(ts, rows)
    ELSE Insert(ts, SubSeq(rows, 1, Len(rows) - 1))

\* the task table after add_all(rows) and a commit that works or raises
\* (the handler then rolls the session back)
BulkCommit(ts, rows, db) == IF db = "ok" THEN Insert(ts, rows) ELSE ts

BulkError(msg) == Json(500, [kind |-> "json", error |-> msg])

\* POST /api/bulk_add
BulkAddTasks(c, data, db) ==
    /\ req' = [Request("bulk_add", c, 0) EXCEPT !.json = data]
    /\ IF Rejected("bulk_add", c)
       THEN resp' = Unauthorized /\ tasks' = tasks
       ELSE IF data.kind # "list"
       THEN /\ resp' = Json(400, [kind |-> "json",
                                  error |-> <<"Invalid data format.  Expected a list of tasks.">>])
            /\ tasks' = tasks
       ELSE LET loop == BulkLoop(data.items, <<>>) IN
            IF loop.out = "invalid"
            THEN /\ resp' = Json(400, [kind |-> "json", error |-> loop.error])
                 /\ tasks' = tasks
            ELSE IF loop.out = "raised"
            THEN /\ resp' = BulkError(<<"An error occurred while adding tasks.">>)
                 /\ tasks' = tasks
            ELSE /\ db = "ok" => NextId(tasks) + Len(loop.rows) - 1 <= MaxId
                 /\ tasks' = BulkCommit(tasks, loop.rows, db)
                 /\ resp' = IF db = "ok"
                            THEN Json(201, [kind |-> "json",
                                            message |-> "Tasks added successfully",
                                            count |-> Len(loop.rows)])
                            ELSE BulkError(<<"An error occurred while adding tasks.">>)
    /\ UNCHANGED <<s3, users, session>>

\* (mutant) the update has no WHERE clause: every row gets the name
RenameAll(ts, i, new_name) == [j \in 1..Len(ts) |-> [ts[j] EXCEPT !.name = new_name]]

\* (mutant) the row is written back as a new task: its flag is reset
RenameAndReopen(ts, i, new_name) ==
    [ts EXCEPT ![i].name = new_name, ![i].complete = FALSE]

\* task.name = new_name, then commit
Rename(ts, i, new_name) == [ts EXCEPT ![i].name = new_name]

\* GET and POST /edit/<task_id>
Edit(c, method, task_id, new_name, db) ==
    /\ req' = [Request("edit", c, task_id) EXCEPT !.ep = IF method = "POST" THEN "edit" ELSE "edit_form"]
    /\ IF Rejected("edit", c)
       THEN resp' = Unauthorized /\ tasks' = tasks
       ELSE IF db = "fail"
       THEN resp' = Unhandled /\ tasks' = tasks
       ELSE LET i == Get(tasks, task_id) IN
            IF i = 0
            THEN /\ resp' = Redirect("home", <<Flash("Task not found", "error")>>)
                 /\ tasks' = tasks
            ELSE IF method = "POST"
            THEN IF new_name = None
                 THEN \* name is NOT NULL: the commit raises
                      resp' = Unhandled /\ tasks' = tasks
                 ELSE /\ tasks' = Rename(tasks, i, new_name)
                      /\ resp' = Redirect("home", <<>>)
            ELSE /\ resp' = Page(200, "edit.html", <<>>)
                 /\ tasks' = tasks
    /\ UNCHANGED <<s3, users, session>>

\* (mutant) the task is marked complete instead of toggled
ToggleSet(ts, i) == [ts EXCEPT ![i].complete = TRUE]

\* task.complete = not task.complete
Toggle(ts, i) == [ts EXCEPT ![i].complete = ~ts[i].complete]

\* POST /complete/<task_id>
CompleteTask(c, task_id, db) ==
    /\ req' = Request("complete", c, task_id)
    /\ IF Rejected("complete", c)
       THEN resp' = Unauthorized /\ tasks' = tasks
       ELSE IF db = "fail"
       THEN /\ resp' = Redirect("home", <<Flash("Error completing task", "error")>>)
            /\ tasks' = tasks
       ELSE LET i == Get(tasks, task_id) IN
            IF i = 0
            THEN /\ resp' = Redirect("home", <<Flash("Task not found", "error")>>)
                 /\ tasks' = tasks
            ELSE /\ tasks' = Toggle(tasks, i)
                 /\ resp' = Redirect("home", <<Flash("Task completion status updated", "success")>>)
    /\ UNCHANGED <<s3, users, session>>

\* Whether the name s3_client is bound where delete_task and
\* delete_all_tasks use it: routes/tasks.py binds it only as a local
\* variable of upload_file and of download_file, so the call raises NameError.
S3ClientBound == FALSE

\* GET /delete/<task_id>
DeleteTask(c, task_id, db, s3o) ==
    /\ req' = Request("delete", c, task_id)
    /\ IF Rejected("delete", c)
       THEN resp' = Unauthorized /\ UNCHANGED <<tasks, s3>>
       ELSE IF db = "fail"
       THEN /\ resp' = Redirect("home", <<Flash("Error deleting task", "error")>>)
            /\ UNCHANGED <<tasks, s3>>
       ELSE LET i == Get(tasks, task_id) IN
            IF i = 0
            THEN /\ resp' = Redirect("home", <<Flash("Task not found", "error")>>)
                 /\ UNCHANGED <<tasks, s3>>
            ELSE IF Truthy(tasks[i].file_name) /\ ~S3ClientBound
            THEN /\ resp' = Redirect("home", <<Flash("Error deleting task", "error")>>)
                 /\ UNCHANGED <<tasks, s3>>
            ELSE IF Truthy(tasks[i].file_name) /\ s3o = "nocreds"
            THEN /\ resp' = Redirect("home", <<Flash("Credentials not available", "error")>>)
                 /\ UNCHANGED <<tasks, s3>>
            ELSE IF Truthy(tasks[i].file_name) /\ s3o = "delete_error"
            THEN /\ resp' = Redirect("home", <<Flash("Error deleting file from S3", "error")>>)
                 /\ UNCHANGED <<tasks, s3>>
            ELSE /\ s3' = IF Truthy(tasks[i].file_name)
                          THEN S3Delete(s3, S3Key(task_id, tasks[i].file_name))
                          ELSE s3
                 /\ tasks' = Remove(tasks, i)
                 /\ resp' = Redirect("home", <<Flash("Task deleted successfully", "danger")>>)
    /\ UNCHANGED <<users, session>>

\* the loop of delete_all_tasks: every row is deleted and committed on its
\* own, after the object of its file is deleted from the remote store
RECURSIVE DeleteAllLoop(_, _, _)
DeleteAllLoop(ts, store, s3o) ==
    IF ts = <<>> THEN [out |-> "done", tasks |-> ts, s3 |-> store]
    ELSE LET task == Head(ts) IN
         IF ~Truthy(task.file_name)
         THEN DeleteAllLoop(Tail(ts), store, s3o)
         ELSE IF ~S3ClientBound THEN [out |-> "raised", tasks |-> ts, s3 |-> store]
         ELSE IF s3o = "nocreds" THEN [out |-> "nocreds", tasks |-> ts, s3 |-> store]
         ELSE IF s3o = "delete_error" THEN [out |-> "client_error", tasks |-> ts, s3 |-> store]
         ELSE DeleteAllLoop(Tail(ts), S3Delete(store, S3Key(task.id, task.file_name)), s3o)

\* POST /delete_all
DeleteAllTasks(c, db, s3o) ==
    /\ req' = Request("delete_all", c, 0)
    /\ IF Rejected("delete_all", c)
       THEN resp' = Unauthorized /\ UNCHANGED <<tasks, s3>>
       ELSE IF db = "fail"
       THEN /\ resp' = Redirect("home", <<Flash("Error deleting all tasks", "error")>>)
            /\ UNCHANGED <<tasks, s3>>
       ELSE LET loop == DeleteAllLoop(tasks, s3, s3o) IN
            /\ tasks' = loop.tasks
            /\ s3' = loop.s3
            /\ resp' = Redirect("home",
                         <<IF loop.out = "done"
                             THEN Flash("All tasks deleted successfully", "danger")
                           ELSE IF loop.out = "nocreds"
                             THEN Flash("Credentials not available", "error")
                           ELSE IF loop.out = "client_error"
                             THEN Flash("Error deleting file from S3", "error")
                           ELSE Flash("Error deleting all tasks", "error")>>)
    /\ UNCHANGED <<users, session>>

\* POST /upload/<task_id>; filename None: the request has no file part
UploadFile(c, task_id, filename, content, db, s3o) ==
    /\ req' = Request("upload", c, task_id)
    /\ IF Rejected("upload", c)
       THEN resp' = Unauthorized /\ UNCHANGED <<tasks, s3>>
       ELSE IF filename = None
       THEN /\ resp' = Redirect("home", <<Flash("No file part", "error")>>)
            /\ UNCHANGED <<tasks, s3>>
       ELSE IF filename = ""
       THEN /\ resp' = Redirect("home", <<Flash("No selected file", "error")>>)
            /\ UNCHANGED <<tasks, s3>>
       ELSE IF s3o = "nocreds"
       THEN /\ resp' = Redirect("home", <<Flash("Credentials not available", "error")>>)
            /\ UNCHANGED <<tasks, s3>>
       ELSE IF s3o = "head_error"
       THEN /\ resp' = Redirect("home", <<Flash("Error uploading file", "error")>>)
            /\ UNCHANGED <<tasks, s3>>
       ELSE LET s3_key == S3Key(task_id, filename)
                exists == s3_key \in DOMAIN s3
            IN
            IF exists /\ s3o = "delete_error"
            THEN /\ resp' = Redirect("home", <<Flash("Error uploading file", "error")>>)
                 /\ UNCHANGED <<tasks, s3>>
            ELSE LET cleared == IF exists THEN S3Delete(s3, s3_key) ELSE s3
                     notice == IF exists THEN <<Flash("File overwritten", "danger")>> ELSE <<>>
                     i == Get(tasks, task_id)
                 IN
                 IF s3o = "upload_error"
                 THEN /\ s3' = cleared
                      /\ resp' = Redirect("home", Append(notice, Flash("Error uploading file", "error")))
                      /\ tasks' = tasks
                 ELSE /\ s3' = S3Put(cleared, s3_key, content)
                      /\ IF db = "fail"
                         THEN /\ resp' = Redirect("home", Append(notice, Flash("Error uploading file", "error")))
                              /\ tasks' = tasks
                         ELSE IF i = 0
                         THEN /\ resp' = Redirect("home", Append(notice, Flash("Task not found", "error")))
                              /\ tasks' = tasks
                         ELSE /\ tasks' = [tasks EXCEPT ![i].file_name = filename]
                              /\ resp' = Redirect("home", Append(notice, Flash("File uploaded successfully", "success")))
    /\ UNCHANGED <<users, session>>

\* GET /download/<task_id>
DownloadFile(c, task_id, db, s3o) ==
    /\ req' = Request("download", c, task_id)
    /\ IF Rejected("download", c) THEN resp' = Unauthorized
       ELSE IF db = "fail" THEN resp' = Unhandled
       ELSE LET i == Get(tasks, task_id) IN
            IF i = 0 \/ ~Truthy(tasks[i].file_name) THEN resp' = Abort(404)
            ELSE LET s3_key == S3Key(task_id, tasks[i].file_name) IN
                 IF s3o = "nocreds" THEN resp' = Unhandled
                 ELSE IF s3o = "get_error" \/ s3_key \notin DOMAIN s3
                 THEN resp' = [Page(500, "Error downloading file", <<>>) EXCEPT !.body.kind = "text"]
                 ELSE resp' = [status |-> 200, loc |-> None, flashes |-> <<>>,
                               body |-> [kind |-> "attachment",
                                         content |-> s3[s3_key],
                                         download_name |-> tasks[i].file_name]]
    /\ UNCHANGED <<tasks, s3, users, session>>

\* GET and POST /register
Register(c, method, email, password, db) ==
    /\ req' = [Request("register", c, 0) EXCEPT !.ep = IF method = "POST" THEN "register" ELSE "register_form"]
    /\ IF method = "GET"
       THEN resp' = Page(200, "register.html", <<>>) /\ users' = users
       ELSE IF db = "fail" \/ UniqueViolation(users, email)
       THEN \* the commit raises and nothing catches it
            resp' = Unhandled /\ users' = users
       ELSE /\ users' = Append(users, [id |-> Len(users) + 1, email |-> email,
                                       password |-> PasswordHash(password)])
            /\ resp' = Redirect("login", <<Flash("Registration successful! Please log in.", "success")>>)
    /\ UNCHANGED <<tasks, s3, session>>

\* GET and POST /login
Login(c, method, email, password, db) ==
    /\ req' = [Request("login", c, 0) EXCEPT !.ep = IF method = "POST" THEN "login" ELSE "login_form"]
    /\ IF method = "GET"
       THEN resp' = Page(200, "login.html", <<>>) /\ session' = session
       ELSE IF db = "fail"
       THEN resp' = Unhandled /\ session' = session
       ELSE LET u == FirstUser(users, email) IN
            IF u # 0 /\ CheckPasswordHash(users[u].password, password)
            THEN /\ session' = [session EXCEPT ![c] = users[u].id]
                 /\ resp' = Redirect("dashboard", <<>>)
            ELSE /\ session' = session
                 /\ resp' = Page(200, "login.html",
                                 <<Flash("Login failed. Check your email and password.", "danger")>>)
    /\ UNCHANGED <<tasks, s3, users>>

\* GET /dashboard
Dashboard(c) ==
    /\ req' = Request("dashboard", c, 0)
    /\ resp' = IF Rejected("dashboard", c) THEN Unauthorized
               ELSE Page(200, "dashboard.html", <<>>)
    /\ UNCHANGED <<tasks, s3, users, session>>

\* (mutant) the redirect is sent without logout_user()
LogoutKeepsSession(c) ==
    /\ req' = Request("logout", c, 0)
    /\ session' = session
    /\ resp' = IF Rejected("logout", c) THEN Unauthorized ELSE Redirect("login", <<>>)
    /\ UNCHANGED <<tasks, s3, users>>

\* GET /logout
Logout(c) ==
    /\ req' = Request("logout", c, 0)
    /\ IF Rejected("logout", c)
       THEN resp' = Unauthorized /\ session' = session
       ELSE /\ session' = [session EXCEPT ![c] = 0]
            /\ resp' = Redirect("login", <<>>)
    /\ UNCHANGED <<tasks, s3, users>>

TaskIds == 1..(MaxId + 1)       \* the ids a request can name

\* ------------------------------------------------- requests step by step
\* A request of one worker while other workers handle theirs: the handler
\* reads, and later commits; what it read stays in the worker's session.

\* (mutant) the flag is negated again when the row is written
WriteCompleteFresh(ts, i, complete) == [ts EXCEPT ![i].complete = ~ts[i].complete]

\* the UPDATE of a commit after task.complete was set: the value the
\* handler computed from the row it read
WriteComplete(ts, i, complete) == [ts EXCEPT ![i].complete = complete]

\* edit (POST) and complete_task up to the commit: db.session.get, and the
\* new value of the field set on the row read
ReadTask(w, c, ep, task_id, new_name) ==
    /\ inflight[w].op = "none"
    /\ ep \in {"edit", "complete"}
    /\ LET i == Get(tasks, task_id) IN
       IF i = 0
       THEN /\ req' = Request(ep, c, task_id)
            /\ resp' = Redirect("home", <<Flash("Task not found", "error")>>)
            /\ inflight' = inflight
       ELSE /\ inflight' =
                 [inflight EXCEPT ![w] =
                    [Idle EXCEPT !.op = ep, !.client = c, !.id = task_id,
                                 !.name = IF ep = "edit" THEN new_name ELSE None,
                                 !.complete = IF ep = "complete"
                                              THEN ~tasks[i].complete ELSE FALSE]]
            /\ UNCHANGED <<req, resp>>
    /\ UNCHANGED <<tasks, s3, users, session>>

\* db.session.commit() of edit and of complete_task, and the response.  The
\* UPDATE of a row that is gone, a NULL name and a failing storage engine
\* raise: complete_task catches it, edit does not.
CommitTask(w, db) ==
    LET r == inflight[w]
        i == Get(tasks, r.id)
        raises == db = "fail" \/ i = 0 \/ (r.op = "edit" /\ r.name = None)
    IN
    /\ r.op \in {"edit", "complete"}
    /\ req' = Request(r.op, r.client, r.id)
    /\ inflight' = [inflight EXCEPT ![w] = Idle]
    /\ IF raises
       THEN /\ tasks' = tasks
            /\ resp' = IF r.op = "edit" THEN Unhandled
                       ELSE Redirect("home", <<Flash("Error completing task", "error")>>)
       ELSE IF r.op = "edit"
       THEN /\ tasks' = Rename(tasks, i, r.name)
            /\ resp' = Redirect("home", <<>>)
       ELSE /\ tasks' = WriteComplete(tasks, i, r.complete)
            /\ resp' = Redirect("home", <<Flash("Task completion status updated", "success")>>)
    /\ UNCHANGED <<s3, users, session>>

\* bulk_add_tasks up to the commit: the body is read and the rows are built
\* and added to the session; a body that is refused is answered at once
BeginBulk(w, c, data) ==
    /\ inflight[w].op = "none"
    /\ IF data.kind = "list" /\ BulkLoop(data.items, <<>>).out = "done"
       THEN /\ inflight' =
                 [inflight EXCEPT ![w] =
                    [Idle EXCEPT !.op = "bulk_add", !.client = c, !.json = data,
                                 !.rows = BulkLoop(data.items, <<>>).rows,
                                 !.before = tasks]]
            /\ UNCHANGED <<tasks, s3, users, session, req, resp>>
       ELSE BulkAddTasks(c, data, "ok") /\ inflight' = inflight

\* db.session.commit() of bulk_add_tasks, and the response
CommitBulk(w, db) ==
    LET r == inflight[w] IN
    /\ r.op = "bulk_add"
    /\ db = "ok" => NextId(tasks) + Len(r.rows) - 1 <= MaxId
    /\ req' = [Request("bulk_add", r.client, 0) EXCEPT !.json = r.json]
    /\ inflight' = [inflight EXCEPT ![w] = Idle]
    /\ tasks' = BulkCommit(tasks, r.rows, db)
    /\ resp' = IF db = "ok"
               THEN Json(201, [kind |-> "json",
                               message |-> "Tasks added successfully",
                               count |-> Len(r.rows)])
               ELSE BulkError(<<"An error occurred while adding tasks.">>)
    /\ UNCHANGED <<s3, users, session>>

\* delete_all_tasks up to its loop: db.session.query(Task).all()
BeginDeleteAll(w, c) ==
    /\ inflight[w].op = "none"
    /\ inflight' = [inflight EXCEPT ![w] =
                      [Idle EXCEPT !.op = "delete_all", !.client = c,
                                   !.rows = tasks, !.before = tasks]]
    /\ UNCHANGED <<tasks, s3, users, session, req, resp>>

\* one turn of the loop of delete_all_tasks: the object of the row's file
\* is deleted, the row is deleted and the delete is committed; after the
\* last row, or when a turn raises, the response
StepDeleteAll(w, db, s3o) ==
    LET r == inflight[w]
        done(flash) ==
            /\ req' = Request("delete_all", r.client, 0)
            /\ resp' = Redirect("home", <<flash>>)
            /\ inflight' = [inflight EXCEPT ![w] = Idle]
            /\ UNCHANGED <<tasks, s3>>
    IN
    /\ r.op = "delete_all"
    /\ IF r.rows = <<>>
       THEN done(Flash("All tasks deleted successfully", "danger"))
       ELSE LET task == Head(r.rows)
                i == Get(tasks, task.id)
            IN
            IF Truthy(task.file_name) /\ ~S3ClientBound
            THEN done(Flash("Error deleting all tasks", "error"))
            ELSE IF Truthy(task.file_name) /\ s3o = "nocreds"
            THEN done(Flash("Credentials not available", "error"))
            ELSE IF Truthy(task.file_name) /\ s3o = "delete_error"
            THEN done(Flash("Error deleting file from S3", "error"))
            ELSE IF db = "fail"
            THEN done(Flash("Error deleting all tasks", "error"))
            ELSE /\ s3' = IF Truthy(task.file_name)
                          THEN S3Delete(s3, S3Key(task.id, task.file_name))
                          ELSE s3
                 /\ tasks' = IF i = 0 THEN tasks ELSE Remove(tasks, i)
                 /\ inflight' = [inflight EXCEPT ![w].rows = Tail(r.rows)]
                 /\ UNCHANGED <<req, resp>>
    /\ UNCHANGED <<users, session>>

\* ---------------------------------------------------------- specifications
\* The run of successful /complete requests on one task, as the requests
\* show it: the task, its flag before the run and the length of the run
\* (1 or 2).  Any other request that names the task, and /delete_all, end it.
Watch ==
    LET i == Get(tasks, req'.id) IN
    IF req'.ep = "complete" /\ i # 0
       /\ resp'.flashes = <<Flash("Task completion status updated", "success")>>
    THEN IF toggled.id = req'.id /\ toggled.n = 1
         THEN [toggled EXCEPT !.n = 2]
         ELSE [id |-> req'.id, orig |-> tasks[i].complete, n |-> 1]
    ELSE IF req'.id = toggled.id \/ req'.ep = "delete_all" THEN NoToggle
    ELSE toggled

\* The last successful upload of every task, as the requests show it: an
\* upload answered 'File uploaded successfully' is the task's last one.
WatchAttach(task_id, filename, content) ==
    IF \E k \in 1..Len(resp'.flashes) :
          resp'.flashes[k] = Flash("File uploaded successfully", "success")
    THEN [k \in DOMAIN attached \cup {task_id} |->
            IF k = task_id THEN <<filename, content>> ELSE attached[k]]
    ELSE attached

\* any other request: the uploads of the tasks still in the table
KeepAttach == [k \in DOMAIN attached \cap Ids(tasks') |-> attached[k]]

\* The Task Store behind its handlers: every request to add, bulk-add, edit,
\* complete, delete and list, with a storage engine that works or raises.
Next ==
    \/ \E c \in Clients, db \in DbOutcomes :
          GetTasks(c, db) /\ UNCHANGED <<toggled, attached, inflight>>
    \/ \E c \in Clients, name \in FormText(Names), due_date \in FormText(Dues),
          db \in DbOutcomes :
          AddTask(c, name, due_date, db) /\ UNCHANGED <<toggled, attached, inflight>>
    \/ \E c \in Clients, data \in BodiesUpTo(1), db \in DbOutcomes :
          BulkAddTasks(c, data, db) /\ UNCHANGED <<toggled, attached, inflight>>
    \/ \E c \in Clients, method \in Methods, task_id \in TaskIds,
          new_name \in FormText(Names), db \in DbOutcomes :
          Edit(c, method, task_id, new_name, db) /\ UNCHANGED <<toggled, attached, inflight>>
    \/ \E c \in Clients, task_id \in TaskIds, db \in DbOutcomes :
          CompleteTask(c, task_id, db) /\ UNCHANGED <<toggled, attached, inflight>>
    \/ \E c \in Clients, task_id \in TaskIds, db \in DbOutcomes :
          DeleteTask(c, task_id, db, "ok") /\ UNCHANGED <<toggled, attached, inflight>>

Spec == Init /\ [][Next]_vars

\* Bulk add with every body up to MaxBulk values, and the requests that list
\* the table and make room in it.
NextBulk ==
    \/ \E c \in Clients, data \in JsonBodies, db \in DbOutcomes :
          BulkAddTasks(c, data, db) /\ UNCHANGED <<toggled, attached, inflight>>
    \/ \E c \in Clients : GetTasks(c, "ok") /\ UNCHANGED <<toggled, attached, inflight>>
    \/ \E c \in Clients, task_id \in TaskIds :
          DeleteTask(c, task_id, "ok", "ok") /\ UNCHANGED <<toggled, attached, inflight>>

SpecBulk == Init /\ [][NextBulk]_vars

\* The requests that work on single tasks, watched for runs of /complete.
NextToggle ==
    \/ \E c \in Clients, name \in Names :
          AddTask(c, name, "d", "ok") /\ toggled' = Watch /\ UNCHANGED <<attached, inflight>>
    \/ \E c \in Clients, task_id \in TaskIds, new_name \in Names :
          Edit(c, "POST", task_id, new_name, "ok") /\ toggled' = Watch /\ UNCHANGED <<attached, inflight>>
    \/ \E c \in Clients, task_id \in TaskIds, db \in DbOutcomes :
          CompleteTask(c, task_id, db) /\ toggled' = Watch /\ UNCHANGED <<attached, inflight>>
    \/ \E c \in Clients, task_id \in TaskIds :
          DeleteTask(c, task_id, "ok", "ok") /\ toggled' = Watch /\ UNCHANGED <<attached, inflight>>

SpecToggle == Init /\ [][NextToggle]_vars

\* Tasks with attached files: upload, download, delete and delete-all
\* against a remote store that works or fails.
NextFiles ==
    \/ \E c \in Clients :
          AddTask(c, "a", "d", "ok") /\ attached' = KeepAttach
            /\ UNCHANGED <<toggled, inflight>>
    \/ \E c \in Clients, task_id \in TaskIds, filename \in FormText(FileNames),
          content \in Contents, db \in DbOutcomes, s3o \in S3Outcomes :
          UploadFile(c, task_id, filename, content, db, s3o)
            /\ attached' = WatchAttach(task_id, filename, content)
            /\ UNCHANGED <<toggled, inflight>>
    \/ \E c \in Clients, task_id \in TaskIds, db \in DbOutcomes, s3o \in S3Outcomes :
          DownloadFile(c, task_id, db, s3o) /\ attached' = KeepAttach
            /\ UNCHANGED <<toggled, inflight>>
    \/ \E c \in Clients, task_id \in TaskIds, db \in DbOutcomes, s3o \in S3Outcomes :
          DeleteTask(c, task_id, db, s3o) /\ attached' = KeepAttach
            /\ UNCHANGED <<toggled, inflight>>
    \/ \E c \in Clients, db \in DbOutcomes, s3o \in S3Outcomes :
          DeleteAllTasks(c, db, s3o) /\ attached' = KeepAttach
            /\ UNCHANGED <<toggled, inflight>>

SpecFiles == Init /\ [][NextFiles]_vars

\* One worker adds in bulk or deletes all tasks, step by step, while other
\* requests list the table.
NextVisible ==
    \/ \E c \in Clients, data \in BodiesUpTo(MaxBulk) :
          BeginBulk("w1", c, data) /\ UNCHANGED <<toggled, attached>>
    \/ \E db \in DbOutcomes :
          CommitBulk("w1", db) /\ UNCHANGED <<toggled, attached>>
    \/ \E c \in Clients :
          BeginDeleteAll("w1", c) /\ UNCHANGED <<toggled, attached>>
    \/ \E db \in DbOutcomes :
          StepDeleteAll("w1", db, "ok") /\ UNCHANGED <<toggled, attached>>
    \/ \E c \in Clients :
          GetTasks(c, "ok") /\ UNCHANGED <<toggled, attached, inflight>>

SpecVisible == Init /\ [][NextVisible]_vars

\* Two workers edit and complete tasks, each reading and then committing,
\* in every interleaving.
NextRace ==
    \/ \E c \in Clients, name \in Names :
          AddTask(c, name, "d", "ok") /\ UNCHANGED <<toggled, attached, inflight>>
    \/ \E w \in Workers, c \in Clients, ep \in {"edit", "complete"},
          task_id \in TaskIds, new_name \in Names :
          ReadTask(w, c, ep, task_id, new_name) /\ UNCHANGED <<toggled, attached>>
    \/ \E w \in Workers, db \in DbOutcomes :
          CommitTask(w, db) /\ UNCHANGED <<toggled, attached>>

SpecRace == Init /\ [][NextRace]_vars

\* Accounts and sessions in front of every endpoint: register, log in, log
\* out, and one request of each kind to the task endpoints.
NextAuth ==
    \/ \E c \in Clients, method \in Methods, email \in Emails,
          password \in Passwords, db \in DbOutcomes :
          Register(c, method, email, password, db) /\ UNCHANGED <<toggled, attached, inflight>>
    \/ \E c \in Clients, method \in Methods, email \in Emails,
          password \in Passwords, db \in DbOutcomes :
          Login(c, method, email, password, db) /\ UNCHANGED <<toggled, attached, inflight>>
    \/ \E c \in Clients : Dashboard(c) /\ UNCHANGED <<toggled, attached, inflight>>
    \/ \E c \in Clients : Logout(c) /\ UNCHANGED <<toggled, attached, inflight>>
    \/ \E c \in Clients, incomplete \in IncompleteArgs, db \in DbOutcomes :
          Home(c, incomplete, db) /\ UNCHANGED <<toggled, attached, inflight>>
    \/ \E c \in Clients : GetTasks(c, "ok") /\ UNCHANGED <<toggled, attached, inflight>>
    \/ \E c \in Clients : AddTask(c, "a", "d", "ok") /\ UNCHANGED <<toggled, attached, inflight>>
    \/ \E c \in Clients :
          BulkAddTasks(c, JsonList(<<JsonValue("object", "b", "d", "true")>>), "ok")
            /\ UNCHANGED <<toggled, attached, inflight>>
    \/ \E c \in Clients, method \in Methods :
          Edit(c, method, 1, "b", "ok") /\ UNCHANGED <<toggled, attached, inflight>>
    \/ \E c \in Clients : CompleteTask(c, 1, "ok") /\ UNCHANGED <<toggled, attached, inflight>>
    \/ \E c \in Clients : DeleteTask(c, 1, "ok", "ok") /\ UNCHANGED <<toggled, attached, inflight>>
    \/ \E c \in Clients : DeleteAllTasks(c, "ok", "ok") /\ UNCHANGED <<toggled, attached, inflight>>
    \/ \E c \in Clients : UploadFile(c, 1, "f", "x", "ok", "ok") /\ UNCHANGED <<toggled, attached, inflight>>
    \/ \E c \in Clients : DownloadFile(c, 1, "ok", "ok") /\ UNCHANGED <<toggled, attached, inflight>>

SpecAuth == Init /\ [][NextAuth]_vars

\* ------------------------------------------------------------------ claims
HasFlash(r, msg, category) ==
    \E k \in 1..Len(r.flashes) : r.flashes[k] = Flash(msg, category)

\* the endpoints the interface lists as needing a session
ProtectedEndpoints ==
    {"home", "add", "edit", "edit_form", "complete", "delete", "delete_all",
     "upload", "download", "get_tasks", "bulk_add"}

\* a response that turns the client away: 401, 403 or the redirect to login
TurnedAway(r) == r.status \in {401, 403} \/ (r.status = 302 /\ r.loc = "login")

\* C1: a request without an authenticated session to a protected endpoint is
\* rejected or redirected to login, and the task table and the remote store
\* are neither shown nor changed.
C1_UnauthenticatedRejected ==
    [][(req'.ep \in ProtectedEndpoints /\ ~req'.authed)
          => (TurnedAway(resp') /\ tasks' = tasks /\ s3' = s3)]_vars

\* C2: add_task with a non-empty name and due_date answers 302 with the
\* flash 'Task added successfully', and the listing afterwards is the
\* listing before plus one new task with that name and due_date, not
\* complete, under an id no prior task has.
C2_AddThenList ==
    [][req'.ep = "add" =>
        \A c \in Clients, name \in FormText(Names), due_date \in FormText(Dues) :
            (Truthy(name) /\ Truthy(due_date) /\ AddTask(c, name, due_date, "ok"))
            => /\ resp'.status = 302
               /\ resp'.flashes = <<Flash("Task added successfully", "success")>>
               /\ \E id \in (1..MaxId) \ Ids(tasks) :
                     TasksJson(tasks') =
                        Append(TasksJson(tasks),
                               [id |-> id, name |-> name, due_date |-> due_date,
                                complete |-> FALSE])]_vars

C2_Witness ==
    /\ req.ep = "add"
    /\ HasFlash(resp, "Task added successfully", "success")
    /\ Len(tasks) = 2
    /\ tasks[2].name = "b"

\* a response that reports a validation error: 400, or a flash that says so
ValidationError(r) ==
    \/ r.status = 400
    \/ \E k \in 1..Len(r.flashes) : r.flashes[k][2] \in {"error", "danger"}

\* C3: add_task with an empty or absent name or due_date fails with a
\* validation error and leaves the task table unchanged.
C3_AddInvalidFails ==
    [][req'.ep = "add" =>
        \A c \in Clients, name \in FormText(Names), due_date \in FormText(Dues),
           db \in DbOutcomes :
            (~(Truthy(name) /\ Truthy(due_date)) /\ AddTask(c, name, due_date, db))
            => (ValidationError(resp') /\ tasks' = tasks)]_vars

\* a value of a bulk_add body that is a record with a name and a due_date
ValidItem(item) ==
    /\ item.kind = "object"
    /\ item.name \notin {Absent, ""}
    /\ item.due_date \notin {Absent, ""}

\* a record without a name or without a due_date
LackingItem(item) == item.kind = "object" /\ ~ValidItem(item)

\* C4: bulk_add_tasks with a list of N records that each have a name and a
\* due_date answers 201 with count N and appends N rows to the table, the
\* k-th new row carrying the k-th record, with ids ascending in input order.
C4_BulkAddInserts ==
    [][(/\ req'.ep = "bulk_add"
        /\ req'.json.kind = "list"
        /\ \A k \in 1..Len(req'.json.items) : ValidItem(req'.json.items[k])
        /\ BulkAddTasks(req'.client, req'.json, "ok"))
       => LET items == req'.json.items
              N == Len(items)
              old == Len(tasks)
          IN  /\ resp'.status = 201
              /\ resp'.body.count = N
              /\ Len(tasks') = old + N
              /\ SubSeq(tasks', 1, old) = tasks
              /\ \A k \in 1..N :
                    /\ tasks'[old + k].name = items[k].name
                    /\ tasks'[old + k].due_date = items[k].due_date
                    /\ tasks'[old + k].complete = (items[k].complete = "true")
                    /\ tasks'[old + k].id \notin Ids(tasks)
                    /\ \A j \in 1..(k - 1) : tasks'[old + j].id < tasks'[old + k].id]_vars

C4_Witness ==
    /\ req.ep = "bulk_add"
    /\ resp.status = 201
    /\ resp.body.count = 2
    /\ Len(tasks) = 2
    /\ tasks[1].name # tasks[2].name

\* C5: when a record of the body lacks name or due_date, or the commit
\* fails, no row of that call is in the table afterwards.
C5_BulkAddAllOrNothing ==
    [][req'.ep = "bulk_add" =>
        /\ (/\ req'.json.kind = "list"
            /\ \E k \in 1..Len(req'.json.items) : LackingItem(req'.json.items[k]))
           => tasks' = tasks
        /\ tasks' # tasks => ~BulkAddTasks(req'.client, req'.json, "fail")]_vars

C5_Witness ==
    /\ req.ep = "bulk_add"
    /\ req.json.kind = "list"
    /\ Len(req.json.items) = 2
    /\ ValidItem(req.json.items[1])
    /\ LackingItem(req.json.items[2])
    /\ resp.status = 400
    /\ tasks # <<>>

\* the first value of a list that is no record with a name and a due_date
FirstNotValid(items) ==
    CHOOSE k \in 1..Len(items) :
        /\ ~ValidItem(items[k])
        /\ \A j \in 1..(k - 1) : ValidItem(items[j])

\* C6: when the first value of the list that is not a valid record is a
\* record lacking name or due_date, bulk_add_tasks answers 400 and the
\* message shows, for that record, 'missing' for each field that is absent
\* or empty and the value of each field that is given.
C6_BulkAddNamesFirstInvalid ==
    [][(/\ req'.ep = "bulk_add"
        /\ req'.json.kind = "list"
        /\ \E k \in 1..Len(req'.json.items) : ~ValidItem(req'.json.items[k])
        /\ LackingItem(req'.json.items[FirstNotValid(req'.json.items)]))
       => LET item == req'.json.items[FirstNotValid(req'.json.items)] IN
          /\ resp'.status = 400
          /\ resp'.body.error =
                <<"Each task must have a name and due_date.",
                  "The name was",
                  IF item.name \in {Absent, ""} THEN "missing" ELSE item.name,
                  "and due_date was",
                  IF item.due_date \in {Absent, ""} THEN "missing" ELSE item.due_date>>]_vars

C6_Witness ==
    /\ req.ep = "bulk_add"
    /\ req.json.kind = "list"
    /\ Len(req.json.items) = 2
    /\ req.json.items[1].name = Absent
    /\ req.json.items[1].due_date = "d"
    /\ req.json.items[2].due_date = Absent
    /\ resp.status = 400
    /\ resp.body.error[3] = "missing"
    /\ resp.body.error[5] = "d"

\* a body that is a sequence of records
SequenceOfRecords(json) ==
    /\ json.kind = "list"
    /\ \A k \in 1..Len(json.items) : json.items[k].kind = "object"

\* C7: for every body that is not a sequence of records, bulk_add_tasks
\* answers 400 with an error body and the task table is unchanged.
C7_BulkAddInvalidFormat ==
    [][(req'.ep = "bulk_add" /\ ~SequenceOfRecords(req'.json))
          => (resp'.status = 400 /\ resp'.body.kind = "json" /\ tasks' = tasks)]_vars

\* C8: after one successful toggle of a task its flag is the negation of the
\* flag before; after two, with no other request on that task in between,
\* it is the flag before again.
C8_ToggleInvolution ==
    toggled.n # 0 =>
        LET i == Get(tasks, toggled.id) IN
        /\ i # 0
        /\ toggled.n = 1 => tasks[i].complete = ~toggled.orig
        /\ toggled.n = 2 => tasks[i].complete = toggled.orig

C8_Witness ==
    /\ toggled.n = 2
    /\ toggled.orig = TRUE
    /\ req.ep = "complete"
    /\ req.id = toggled.id

\* C9: delete_task on an id no task has leaves the table unchanged and
\* answers 302 with the error flash 'Task not found'.
C9_DeleteMissing ==
    [][req'.ep = "delete" =>
        \A c \in Clients, task_id \in TaskIds, s3o \in S3Outcomes :
            (task_id \notin Ids(tasks) /\ DeleteTask(c, task_id, "ok", s3o))
            => /\ tasks' = tasks
               /\ resp'.status = 302
               /\ resp'.flashes = <<Flash("Task not found", "error")>>]_vars

C9_Witness ==
    /\ req.ep = "delete"
    /\ req.id \notin Ids(tasks)
    /\ HasFlash(resp, "Task not found", "error")
    /\ tasks # <<>>
    /\ tasks[1].id # 1

\* C10: delete_task on an existing task, with or without a file, removes
\* exactly that row when the storage engine and the remote store work: no
\* row has the id afterwards and every other row is as before.
C10_DeleteExisting ==
    [][req'.ep = "delete" =>
        \A c \in Clients, task_id \in TaskIds :
            (task_id \in Ids(tasks) /\ DeleteTask(c, task_id, "ok", "ok"))
            => tasks' = SelectSeq(tasks, LAMBDA t : t.id # task_id)]_vars

\* the flash that names the failure of the remote store
RemoteErrorFlash(s3o) ==
    IF s3o = "nocreds" THEN Flash("Credentials not available", "error")
    ELSE Flash("Error deleting file from S3", "error")

\* C11: delete_task on a task with a file deletes the object before the row:
\* when the remote store has no credentials or fails the call, the row stays
\* and the flash names that failure; and no request to delete removes a row
\* and leaves the object of its file in the remote store.
C11_DeleteFileFirst ==
    [][req'.ep = "delete" =>
        /\ \A c \in Clients, task_id \in TaskIds, s3o \in {"nocreds", "delete_error"} :
              (/\ Get(tasks, task_id) # 0
               /\ Truthy(tasks[Get(tasks, task_id)].file_name)
               /\ DeleteTask(c, task_id, "ok", s3o))
              => /\ tasks' = tasks
                 /\ resp'.flashes = <<RemoteErrorFlash(s3o)>>
        /\ \A i \in 1..Len(tasks) :
              (Truthy(tasks[i].file_name) /\ tasks[i].id \notin Ids(tasks'))
              => S3Key(tasks[i].id, tasks[i].file_name) \notin DOMAIN s3']_vars

\* C12: delete_all_tasks answers 302 and leaves no task, whatever the table
\* held, when the storage engine and the remote store work.
C12_DeleteAllLeavesNone ==
    [][req'.ep = "delete_all" =>
        \A c \in Clients :
            DeleteAllTasks(c, "ok", "ok") => (tasks' = <<>> /\ resp'.status = 302)]_vars

\* C13: a request to delete all tasks that does not report success leaves
\* the task table as it was before the request.
C13_DeleteAllRollsBack ==
    [][(req'.ep = "delete_all"
        /\ ~HasFlash(resp', "All tasks deleted successfully", "danger"))
          => tasks' = tasks]_vars

\* a listing shows exactly the rows of the table that are wanted, each once,
\* with id, name, due_date and complete, in the order they were inserted
\* (the storage engine numbers rows upwards as they are inserted)
ListsRows(listing, wanted) ==
    /\ Len(listing) = Cardinality(wanted)
    /\ \A k \in 1..(Len(listing) - 1) : listing[k].id < listing[k + 1].id
    /\ {[id |-> listing[k].id, name |-> listing[k].name,
         due_date |-> listing[k].due_date, complete |-> listing[k].complete] :
            k \in 1..Len(listing)}
         = {[id |-> tasks[i].id, name |-> tasks[i].name,
             due_date |-> tasks[i].due_date, complete |-> tasks[i].complete] :
            i \in wanted}

\* C14: GET /api/tasks and GET / list every task exactly once in insertion
\* order with its id, name, due_date and complete; GET / with
\* incomplete=true, in any letter case, lists exactly the tasks that are not
\* complete, in the same order.
C14_ListTasks ==
    [][/\ (req'.ep = "get_tasks" /\ resp'.status = 200)
            => ListsRows(resp'.body.tasks, 1..Len(tasks))
       /\ (req'.ep = "home" /\ req'.authed)
            => \A c \in Clients, incomplete \in IncompleteArgs :
                  Home(c, incomplete, "ok")
                  => ListsRows(resp'.body.tasks,
                               IF incomplete \in {"true", "TRUE"}
                               THEN {i \in 1..Len(tasks) : ~tasks[i].complete}
                               ELSE 1..Len(tasks))]_vars

C14_Witness ==
    /\ req.ep = "home"
    /\ resp.status = 200
    /\ Len(tasks) = 2
    /\ tasks[1].complete
    /\ Len(resp.body.tasks) = 1
    /\ resp.body.tasks[1].id = 2

\* the accounts an email and a password belong to
AccountsOf(email, password) ==
    {u \in 1..Len(users) : users[u].email = email /\ users[u].password[2] = password}

\* C15: a login request gives the client a session bound to an account if
\* and only if the email is that of a registered account and the password
\* is the one its hash was made from; otherwise the session is as before
\* and the login form is rendered again with the 'Login failed' flash.
C15_LoginIffCredentials ==
    [][req'.ep = "login" =>
        \A c \in Clients, email \in Emails, password \in Passwords :
            Login(c, "POST", email, password, "ok")
            => IF AccountsOf(email, password) # {}
               THEN /\ session'[c] \in {users[u].id : u \in AccountsOf(email, password)}
                    /\ resp'.status = 302
                    /\ resp'.loc = "dashboard"
               ELSE /\ session' = session
                    /\ resp'.body = [kind |-> "html", template |-> "login.html"]
                    /\ resp'.flashes =
                         <<Flash("Login failed. Check your email and password.", "danger")>>]_vars

C15_Witness ==
    /\ req.ep = "login"
    /\ resp.loc = "dashboard"
    /\ Len(users) = 2
    /\ session["c1"] = users[2].id

\* C16: register with an email an account already has is answered by the
\* handler itself, with the registration form and no unhandled fault, and
\* the accounts are as before.
C16_RegisterDuplicateHandled ==
    [][req'.ep = "register" =>
        \A c \in Clients, email \in Emails, password \in Passwords :
            (/\ \E u \in 1..Len(users) : users[u].email = email
             /\ Register(c, "POST", email, password, "ok"))
            => /\ resp'.body = [kind |-> "html", template |-> "register.html"]
               /\ users' = users]_vars

\* C17: no two accounts have the same email.
C17_EmailUnique ==
    \A i, j \in 1..Len(users) : users[i].email = users[j].email => i = j

C17_Witness ==
    /\ req.ep = "register"
    /\ resp.body.kind = "unhandled"
    /\ Len(users) = Cardinality(Emails)

\* C18: every task in the table has an id of its own, a non-empty name and
\* a non-empty due_date.
C18_TaskInvariant ==
    /\ \A i, j \in 1..Len(tasks) : tasks[i].id = tasks[j].id => i = j
    /\ \A i \in 1..Len(tasks) :
          /\ tasks[i].name \notin {"", None}
          /\ tasks[i].due_date \notin {"", None}

\* C19: edit on an id no task has answers a redirect with the flash 'Task
\* not found' and changes nothing; a POST to edit an existing task with a
\* name gives that task the name, leaves every other field and row as it
\* was, and redirects to the listing.
C19_EditTaskName ==
    [][req'.ep \in {"edit", "edit_form"} =>
        \A c \in Clients, method \in Methods, task_id \in TaskIds,
           new_name \in Names \cup {""} :
            Edit(c, method, task_id, new_name, "ok")
            => IF task_id \notin Ids(tasks)
               THEN /\ resp'.status = 302
                    /\ resp'.flashes = <<Flash("Task not found", "error")>>
                    /\ tasks' = tasks
               ELSE method = "POST"
                    => /\ resp'.status = 302
                       /\ resp'.loc = "home"
                       /\ Len(tasks') = Len(tasks)
                       /\ \A k \in 1..Len(tasks) :
                             tasks'[k] = IF tasks[k].id = task_id
                                         THEN [tasks[k] EXCEPT !.name = new_name]
                                         ELSE tasks[k]]_vars

C19_Witness ==
    /\ req.ep = "edit"
    /\ resp.status = 302
    /\ resp.flashes = <<>>
    /\ Len(tasks) = 2
    /\ tasks[1].name = "a"
    /\ tasks[2].id = req.id
    /\ tasks[2].name = "b"

\* C20: no request ends in an exception the handler does not catch.
C20_NoUnhandledException == resp.body.kind # "unhandled"

\* the endpoints that change tasks on a form's behalf
FormEndpoints == {"add", "edit", "complete", "delete", "delete_all", "upload"}

\* C21: every request to add, edit (POST), complete, delete, delete_all and
\* upload is answered by a 302 redirect to the task listing, with at least
\* one flash of category success, danger or error.
C21_RedirectAndFlash ==
    [][req'.ep \in FormEndpoints =>
        /\ resp'.status = 302
        /\ resp'.loc = "home"
        /\ \E k \in 1..Len(resp'.flashes) :
              resp'.flashes[k][2] \in {"success", "danger", "error"}]_vars

\* C22: upload_file on an id no task has reports 'Task not found' and has
\* no effect: the task table and the remote store are as before.
C22_UploadMissingTask ==
    [][req'.ep = "upload" =>
        \A c \in Clients, task_id \in TaskIds, filename \in FileNames,
           content \in Contents :
            (task_id \notin Ids(tasks)
             /\ UploadFile(c, task_id, filename, content, "ok", "ok"))
            => /\ HasFlash(resp', "Task not found", "error")
               /\ tasks' = tasks
               /\ s3' = s3]_vars

\* C23: upload_file on an existing task, with the storage engine working,
\* stores the content under the key made of the task id and the file name
\* and sets the task's file name; an object already at that key is deleted
\* first (so it is gone when the upload then fails) and 'File overwritten'
\* is flashed exactly then.
C23_UploadStoresFile ==
    [][req'.ep = "upload" =>
        \A c \in Clients, task_id \in TaskIds, filename \in FileNames,
           content \in Contents, s3o \in {"ok", "upload_error"} :
            (task_id \in Ids(tasks)
             /\ UploadFile(c, task_id, filename, content, "ok", s3o))
            => LET key == <<"task", task_id, filename>> IN
               /\ HasFlash(resp', "File overwritten", "danger") <=> key \in DOMAIN s3
               /\ \A k \in (DOMAIN s3 \cup DOMAIN s3') \ {key} :
                     k \in DOMAIN s3 /\ k \in DOMAIN s3' /\ s3'[k] = s3[k]
               /\ IF s3o = "ok"
                  THEN /\ key \in DOMAIN s3'
                       /\ s3'[key] = content
                       /\ tasks'[Get(tasks, task_id)].file_name = filename
                       /\ HasFlash(resp', "File uploaded successfully", "success")
                  ELSE key \notin DOMAIN s3']_vars

C23_Witness ==
    /\ req.ep = "upload"
    /\ resp.flashes = <<Flash("File overwritten", "danger"),
                        Flash("File uploaded successfully", "success")>>
    /\ Len(tasks) = 2
    /\ req.id = 2
    /\ tasks[2].file_name = "f"
    /\ <<"task", 2, "f">> \in DOMAIN s3

\* C24: when the remote store fails the existence check, the delete of the
\* old object or the upload, upload_file leaves the task table and the
\* remote store as they were.
C24_UploadAbortsWhole ==
    [][req'.ep = "upload" =>
        \A c \in Clients, task_id \in TaskIds, filename \in FileNames,
           content \in Contents,
           s3o \in {"head_error", "delete_error", "upload_error"} :
            UploadFile(c, task_id, filename, content, "ok", s3o)
            => (tasks' = tasks /\ s3' = s3)]_vars

\* C30: every object of the remote store is the file of a task in the
\* table: its key is made of the id of a task and that task's file name.
C30_NoOrphanObjects ==
    \A key \in DOMAIN s3 :
        \E i \in 1..Len(tasks) :
            key = <<"task", tasks[i].id, tasks[i].file_name>>

\* C26: a logout ends the client's session; a client without a session is
\* redirected to login by /, /dashboard and /logout; and only a successful
\* login gives a client without a session one.
C26_LoggedOutUntilLogin ==
    [][/\ (req'.ep = "logout" /\ req'.authed) => session'[req'.client] = 0
       /\ \A c \in Clients :
             /\ (session[c] = 0 /\ req'.client = c
                 /\ req'.ep \in {"home", "dashboard", "logout"})
                => /\ resp'.status = 302
                   /\ resp'.loc = "login"
                   /\ session'[c] = 0
             /\ (session[c] = 0 /\ session'[c] # 0)
                => /\ req'.ep = "login"
                   /\ req'.client = c
                   /\ resp'.loc = "dashboard"]_vars

C26_Witness ==
    /\ req.ep = "logout"
    /\ req.authed
    /\ resp = Redirect("login", <<>>)
    /\ session[req.client] = 0

\* the rows of after are those of before, but for one field of the row
\* with the id
OnlyFieldOf(before, after, id, field) ==
    /\ Len(after) = Len(before)
    /\ \A k \in 1..Len(before) :
          /\ before[k].id # id => after[k] = before[k]
          /\ \A f \in DOMAIN before[k] \ {field} : after[k][f] = before[k][f]

\* C29: edit changes only the name, complete only the flag and upload only
\* the file name, each of the task of the request only; no request changes
\* the id or the due_date of a task; listing, the edit form and download
\* change nothing.
C29_FrameEffects ==
    [][/\ req'.ep = "edit" => OnlyFieldOf(tasks, tasks', req'.id, "name")
       /\ req'.ep = "complete" => OnlyFieldOf(tasks, tasks', req'.id, "complete")
       /\ req'.ep = "upload" => OnlyFieldOf(tasks, tasks', req'.id, "file_name")
       /\ req'.ep \in {"get_tasks", "home", "edit_form", "download"}
             => (tasks' = tasks /\ s3' = s3)
       /\ req'.ep \notin {"add", "bulk_add", "delete", "delete_all"}
             => /\ Len(tasks') = Len(tasks)
                /\ \A k \in 1..Len(tasks) :
                      /\ tasks'[k].id = tasks[k].id
                      /\ tasks'[k].due_date = tasks[k].due_date
       /\ req'.ep \in {"add", "bulk_add"}
             => SubSeq(tasks', 1, Len(tasks)) = tasks
       /\ req'.ep \in {"delete", "delete_all"}
             => \A j \in 1..Len(tasks') : \E k \in 1..Len(tasks) : tasks'[j] = tasks[k]]_vars

C29_Witness ==
    /\ req.ep = "edit"
    /\ resp = Redirect("home", <<>>)
    /\ Len(tasks) = 2
    /\ tasks[1].id = req.id
    /\ tasks[1].name = "b"
    /\ tasks[1].complete
    /\ tasks[1].file_name = "f"
    /\ tasks[2].name = "a"

\* C25: download_file answers 404 when the task is absent or has no file;
\* otherwise, with the storage engine and the remote store working, it
\* returns the bytes and the file name of the task's last successful upload.
C25_DownloadLastUpload ==
    [][req'.ep = "download" =>
        \A c \in Clients, task_id \in TaskIds :
            DownloadFile(c, task_id, "ok", "ok")
            => IF \/ task_id \notin Ids(tasks)
                  \/ tasks[Get(tasks, task_id)].file_name = None
               THEN resp'.status = 404
               ELSE /\ task_id \in DOMAIN attached
                    /\ resp'.status = 200
                    /\ resp'.body = [kind |-> "attachment",
                                     content |-> attached[task_id][2],
                                     download_name |-> attached[task_id][1]]]_vars

\* C27: a listing made while a bulk add or a delete-all is in progress
\* shows the table as it was when that request began or as it is with all
\* of that request's writes, never with some of them only.
C27_BatchVisibleAtomically ==
    [][(req'.ep = "get_tasks" /\ resp'.status = 200) =>
        \A w \in Workers :
            inflight[w].op \in {"bulk_add", "delete_all"}
            => resp'.body.tasks \in
                  {TasksJson(inflight[w].before),
                   TasksJson(IF inflight[w].op = "bulk_add"
                             THEN Insert(inflight[w].before, inflight[w].rows)
                             ELSE <<>>)}]_vars

\* C28: when requests to edit or complete the same task interleave, each
\* commit (the storage engine working) is answered without an error and
\* leaves in the field the value its own request computed when it read the
\* task, whatever was committed in between; no other field and no other
\* task changes.  So the last commit wins, and two interleaved toggles
\* leave the flag flipped once.
C28_LastWriteWins ==
    [][\A w \in Workers :
          (inflight[w].op \in {"edit", "complete"} /\ CommitTask(w, "ok"))
          => LET r == inflight[w]
                 i == Get(tasks, r.id)
             IN  /\ resp'.status = 302
                 /\ \A k \in 1..Len(resp'.flashes) : resp'.flashes[k][2] # "error"
                 /\ tasks' = [tasks EXCEPT ![i] =
                                IF r.op = "edit"
                                THEN [tasks[i] EXCEPT !.name = r.name]
                                ELSE [tasks[i] EXCEPT !.complete = r.complete]]]_vars

\* one of two interleaved toggles has committed; the other, which read the
\* task before that commit, is about to write the same value again
C28_Witness ==
    /\ inflight["w1"].op = "none"
    /\ inflight["w2"].op = "complete"
    /\ req.ep = "complete"
    /\ req.id = inflight["w2"].id
    /\ resp = Redirect("home", <<Flash("Task completion status updated", "success")>>)
    /\ Get(tasks, req.id) # 0
    /\ tasks[Get(tasks, req.id)].complete = inflight["w2"].complete
====
